---- MODULE Spec2Model ----
(***************************************************************************)
(* Model of the crypto "exploders" backtest: the per-coin pipeline         *)
(* (find_signals, first_confirmation_idx, process_coin) and the day-stepped *)
(* portfolio loop of backtest() in exploders_backtest_v3.py, with the      *)
(* v2 variant of the loop (exploders_backtest_v2.py) selectable by the     *)
(* variable version; to_daily_df (SpecDaily); the two safe_get retry loops *)
(* (SpecFetch); get_combined_market_data of data_sources.py (SpecMarket);  *)
(* the threads of the web service app.py that launch the backtest          *)
(* (SpecService).                                                          *)
(* Each specification runs one of these and holds the others idle.         *)
(*                                                                         *)
(* Numbers.  The program computes in IEEE doubles.  The model computes in  *)
(* exact rationals <<n, d>> (d > 0, lowest terms) extended with the three  *)
(* special values a double division can produce: NaN == <<0,0>>,           *)
(* +inf == <<1,0>>, -inf == <<-1,0>>.  Rounding error is not modelled.     *)
(*                                                                         *)
(* Dates.  A date is the number of the calendar day inside the window,     *)
(* START_DT being day 1; pd.date_range(START_DT, END_DT, freq="D") is      *)
(* 1..NumDays.  The real window has 184 days; NumDays bounds it.           *)
(***************************************************************************)
EXTENDS Integers, Sequences, FiniteSets, TLC

\* ------------------------------------------------------------- bounds
NumDays == 20      \* days of the window START_DT..END_DT (184 in the program)
NumCoins == 2      \* coins submitted to the thread pool
WinLen == 2        \* freely chosen rows of a daily series
MaxListed == 2     \* assets one market-data provider lists
NumRequests == 2   \* GET /run requests the service receives
MaxAutoRuns == 2   \* passes of the daily scheduler's endless loop

\* -------------------------------------------------- program constants
MAX_CONCURRENT == 5
HARD_HOLD_DAYS == 10
ATR_LEN == 14
VOL_MA_LEN == 10
CONFIRM_SPAN == 6
MCAP_MIN == 2000000
MCAP_MAX == 100000000
INITIAL_EQUITY == 100

\* ---------------------------------------------------------- rationals
NaN == <<0, 0>>
PosInf == <<1, 0>>

Abs(x) == IF x < 0 THEN -x ELSE x

Sign(x) == IF x > 0 THEN 1 ELSE IF x < 0 THEN -1 ELSE 0

RECURSIVE GCD(_, _)
GCD(a, b) == IF b = 0 THEN a ELSE GCD(b, a % b)

\* n/d in canonical form; d = 0 gives NaN (n = 0) or a signed infinity
Norm(n, d) ==
    IF d = 0 THEN <<Sign(n), 0>>
    ELSE LET g == GCD(Abs(n), Abs(d))
             s == Sign(d)
         IN  <<(s * n) \div g, (s * d) \div g>>

R(n) == <<n, 1>>

IsNaN(x) == x = NaN

IsFinite(x) == x[2] # 0

RAdd(x, y) ==
    IF IsNaN(x) \/ IsNaN(y) THEN NaN
    ELSE IF ~IsFinite(x) /\ ~IsFinite(y) THEN (IF x = y THEN x ELSE NaN)
    ELSE IF ~IsFinite(x) THEN x
    ELSE IF ~IsFinite(y) THEN y
    ELSE IF x[2] = 1 /\ y[2] = 1 THEN <<x[1] + y[1], 1>>
    ELSE LET g == GCD(x[2], y[2])
         IN  Norm(x[1] * (y[2] \div g) + y[1] * (x[2] \div g), (x[2] \div g) * y[2])

RNeg(x) == <<-x[1], x[2]>>

RSub(x, y) == RAdd(x, RNeg(y))

\* the factors are reduced crosswise first, to keep the products small
RMul(x, y) ==
    IF x[2] = 1 /\ y[2] = 1 THEN <<x[1] * y[1], 1>>
    ELSE IF IsFinite(x) /\ IsFinite(y)
    THEN LET a == Norm(x[1], y[2])
             b == Norm(y[1], x[2])
         IN  Norm(a[1] * b[1], b[2] * a[2])
    ELSE Norm(x[1] * y[1], x[2] * y[2])

\* double division: x/0 is a signed infinity, 0/0 is NaN
RDiv(x, y) ==
    IF x[2] = 1 /\ y[2] = 1 THEN Norm(x[1], y[1])
    ELSE IF IsFinite(x) /\ IsFinite(y) /\ y[1] # 0 THEN RMul(x, Norm(y[2], y[1]))
    ELSE Norm(x[1] * y[2], x[2] * y[1])

RAbs(x) == <<Abs(x[1]), x[2]>>

\* comparisons; every comparison with NaN is false
RLt(x, y) ==
    /\ ~IsNaN(x)
    /\ ~IsNaN(y)
    /\ IF IsFinite(x) /\ IsFinite(y) THEN x[1] * y[2] < y[1] * x[2]
       ELSE IF ~IsFinite(x) /\ ~IsFinite(y) THEN x[1] < y[1]
       ELSE IF ~IsFinite(x) THEN x[1] < 0
       ELSE y[1] > 0

RLe(x, y) == ~IsNaN(x) /\ ~IsNaN(y) /\ (x = y \/ RLt(x, y))

RGt(x, y) == RLt(y, x)

RGe(x, y) == RLe(y, x)

\* Python's max(a, b): the first argument unless the second is greater
RMax(a, b) == IF RGt(b, a) THEN b ELSE a

\* ------------------------------------------- rational program constants
RISK_PCT == <<1, 50>>
FEE_PER_SIDE == <<1, 200>>
VOL_MULT_MIN == R(2)
ONE_DAY_PUMP == R(2)
TWO_DAY_PUMP == R(2)
ATR_MULT_STOP == R(3)
STOP_FLOOR == <<1, 4>>
PAYOFF == <<1, 10>>

\* ------------------------------------------------------------ state
VARIABLES
    version,         \* "v2" or "v3": which script's backtest() runs
    pending,         \* coins whose future has not completed yet
    entries,         \* backtest(): entries, later the rows of entries_df
    pc,              \* backtest(): "collect", "admit", "exit", "done", "aborted"
    d,               \* backtest(): the day of all_dates being simulated
    equity,          \* backtest(): equity
    open_positions,  \* backtest(): open_positions
    trades,          \* backtest(): trades
    curve,           \* backtest(): curve
    admitted,        \* history: one record per open_positions.append
    results,         \* history: per coin, how its future ended and its list
    df,              \* process_coin(): the daily frame of the coin
    cpc,             \* process_coin(): "scan", "loop", "returned", "idle"
    sig_idxs,        \* process_coin(): sig_idxs
    k,               \* process_coin(): position of the loop in sig_idxs
    coin_entries,    \* process_coin(): entries
    calls,           \* history: <<sidx, cidx>> of every first_confirmation_idx call
    origin,          \* history: <<sidx, cidx>> of every appended entry
    mc,              \* to_daily_df(): the raw market data mc
    tdf,             \* to_daily_df(): df
    tpc,             \* to_daily_df(): "start", "grouped", "filtered",
                     \*                "none", "frame", "idle"
    script,          \* safe_get(): "v3" or "data_sources"
    attempt,         \* safe_get(): attempt
    requests,        \* history: number of requests.get calls made
    replies,         \* history: what each request met
    fpc,             \* safe_get(): "loop", "returned", "none", "raised", "idle"
    cg,              \* get_combined_market_data(): cg
    cmc,             \* get_combined_market_data(): cmc
    all_data,        \* get_combined_market_data(): all_data
    seen,            \* get_combined_market_data(): seen
    unique_data,     \* get_combined_market_data(): unique_data
    mi,              \* get_combined_market_data(): position in all_data
    mpc,             \* get_combined_market_data(): "cg", "cmc", "dedup",
                     \*                             "returned", "idle"
    tpos,            \* app.py: where each thread stands: "unborn", "clock",
                     \*         "set", "spawn", "running", "sleeping", "ended"
    now_adl,         \* run_backtest_script(): now_adl of each thread
    last_run_time,   \* app.py: the global last_run_time
    active,          \* threads whose subprocess.run has a live child
    clock,           \* the wall clock, in ticks
    auto_runs        \* passes the scheduler loop has begun

simVars == <<version, pending, entries, pc, d, equity, open_positions,
             trades, curve, admitted, results>>

coinVars == <<df, cpc, sig_idxs, k, coin_entries, calls, origin>>

dailyVars == <<mc, tdf, tpc>>

fetchVars == <<script, attempt, requests, replies, fpc>>

marketVars == <<cg, cmc, all_data, seen, unique_data, mi, mpc>>

vars == <<version, pending, entries, pc, d, equity, open_positions,
          trades, curve, admitted, results, df, cpc, sig_idxs, k, coin_entries,
          calls, origin, mc, tdf, tpc, script, attempt, requests, replies, fpc,
          cg, cmc, all_data, seen, unique_data, mi, mpc, tpos, now_adl,
          last_run_time, active, clock, auto_runs>>

serviceVars == <<tpos, now_adl, last_run_time, active, clock, auto_runs>>

\* the functions that are not running
dailyIdle == mc = <<>> /\ tdf = <<>> /\ tpc = "idle"

fetchIdle ==
    script = "v3" /\ attempt = 0 /\ requests = 0 /\ replies = <<>> /\ fpc = "idle"

marketIdle ==
    /\ cg = <<>>
    /\ cmc = <<>>
    /\ all_data = <<>>
    /\ seen = {}
    /\ unique_data = <<>>
    /\ mi = 0
    /\ mpc = "idle"

serviceIdle ==
    /\ tpos = <<>>
    /\ now_adl = <<>>
    /\ last_run_time = 0
    /\ active = {}
    /\ clock = 0
    /\ auto_runs = 0

\* ------------------------------------------------ a CandidateEntry
\* process_coin(), the tail of one loop iteration: from the row of the
\* confirmation day (date, close, atr, vol, vol_ma10) to the entry dict
EntryPx(close) == RMul(close, RAdd(R(1), FEE_PER_SIDE))

RawStop(entry_px, atr) ==
    RSub(entry_px, RMax(RMul(ATR_MULT_STOP, atr), RMul(STOP_FLOOR, entry_px)))

\* a variant of StopRejected that forgets the test against zero
StopRejectedAboveOnly(raw_stop, entry_px) == RGe(raw_stop, entry_px)

\* "if raw_stop <= 0 or raw_stop >= entry_px: continue"
StopRejected(raw_stop, entry_px) == RLe(raw_stop, R(0)) \/ RGe(raw_stop, entry_px)

VolMult(vol, vol_ma10) == IF vol_ma10 # R(0) THEN RDiv(vol, vol_ma10) ELSE R(0)

MakeEntry(date, cid, close, atr, vol, vol_ma10) ==
    [date     |-> date,
     coin     |-> cid,
     entry_px |-> EntryPx(close),
     stop     |-> RawStop(EntryPx(close), atr),
     atr      |-> atr,
     vol_mult |-> VolMult(vol, vol_ma10)]

\* ------------------------------------- what the workers hand to backtest()
Coins == 1..NumCoins

\* the first day, the day the first day's positions close, and the first day
\* whose positions are still open when the window ends
EntryDays == {1, HARD_HOLD_DAYS, NumDays - HARD_HOLD_DAYS + 2}

\* One date is confirmed by at most CONFIRM_SPAN - 1 signals of a coin
\* (cidx lies in (sidx, sidx + 5]), each giving the same entry again.
MaxSameDay == CONFIRM_SPAN - 1

\* the entry of coin c confirmed on day dt: odd coins have a quiet series
\* (floor stop, volume multiple 3), even coins a volatile one (ATR stop, 5)
CandidateOf(c, dt) ==
    IF c % 2 = 1
    THEN MakeEntry(dt, c, R(8), <<1, 7>>, R(30), R(10))
    ELSE MakeEntry(dt, c, R(4), <<67, 100>>, R(50), R(10))

\* how often a coin repeats its entry: not at all, once, or as often as can be
SameDayCounts == {0, 1, MaxSameDay}

\* the lists process_coin(c) can return here: n equal entries on one day
CoinResults(c) ==
    {[i \in 1..n |-> CandidateOf(c, dt)] : n \in SameDayCounts, dt \in EntryDays}

\* how the future of coin c can end: process_coin returned a list (the empty
\* one when the fetch gave no data or the series was empty or too short), or
\* an exception left the worker and f.result() raises it again
FutureOutcomes(c) ==
    {[state |-> "returned", list |-> es] : es \in CoinResults(c)}
        \cup {[state |-> "raised", list |-> <<>>]}

\* a variant of AfterFuture without the try/except around f.result()
AfterFutureUncaught(out) == IF out.state = "raised" THEN "aborted" ELSE "collect"

\* v3: "try: entries.extend(f.result()) except Exception as e: print(...)",
\* the loop over the futures goes on whatever the future held; v2 calls
\* f.result() bare, so there the exception ends backtest()
AfterFuture(out) ==
    IF version = "v2" /\ out.state = "raised" THEN "aborted" ELSE "collect"

\* entries after the future is handled
Extended(ents, out) == IF out.state = "returned" THEN ents \o out.list ELSE ents

\* ----------------------------------------------------- portfolio loop
Versions == {"v2", "v3"}

\* rows of entries_df, as their positions in entries
Rows == 1..Len(entries)

RECURSIVE RowsOnFrom(_, _)
RowsOnFrom(day, i) ==
    IF i > Len(entries) THEN <<>>
    ELSE IF entries[i].date = day THEN <<i>> \o RowsOnFrom(day, i + 1)
    ELSE RowsOnFrom(day, i + 1)

RECURSIVE RowsOnOrBeforeFrom(_, _)
RowsOnOrBeforeFrom(day, i) ==
    IF i > Len(entries) THEN <<>>
    ELSE IF entries[i].date <= day THEN <<i>> \o RowsOnOrBeforeFrom(day, i + 1)
    ELSE RowsOnOrBeforeFrom(day, i + 1)

\* a variant of RowsOn that also takes the rows of earlier days
RowsOnOrBefore(day) == RowsOnOrBeforeFrom(day, 1)

\* entries_df[entries_df["date"] == d], frame order kept
RowsOn(day) == RowsOnFrom(day, 1)

\* v2: .sort_values("vol_mult", ascending=False); ties keep frame order
RECURSIVE InsertDesc(_, _)
InsertDesc(sorted, r) ==
    IF sorted = <<>> THEN <<r>>
    ELSE IF RLt(entries[Head(sorted)].vol_mult, entries[r].vol_mult)
         THEN <<r>> \o sorted
         ELSE <<Head(sorted)>> \o InsertDesc(Tail(sorted), r)

RECURSIVE SortDesc(_)
SortDesc(rows) ==
    IF rows = <<>> THEN <<>>
    ELSE InsertDesc(SortDesc(SubSeq(rows, 1, Len(rows) - 1)), rows[Len(rows)])

\* todays: v3 takes the day's rows as they come, v2 ranks them first
Todays(day) == IF version = "v2" THEN SortDesc(RowsOn(day)) ELSE RowsOn(day)

\* a variant of Slots that counts out the positions that will close today
SlotsAfterExits(open) ==
    MAX_CONCURRENT
        - Cardinality({i \in 1..Len(open) : open[i].bars_held + 1 < HARD_HOLD_DAYS})

\* a variant of Slots that forgets the positions already open
SlotsIgnoringOpen(open) == MAX_CONCURRENT

\* slots = MAX_CONCURRENT - len(open_positions)
Slots(open) == MAX_CONCURRENT - Len(open)

\* Python's seq[:n]
SliceTo(seq, n) ==
    IF n >= 0 THEN SubSeq(seq, 1, IF n < Len(seq) THEN n ELSE Len(seq))
    ELSE SubSeq(seq, 1, IF Len(seq) + n > 0 THEN Len(seq) + n ELSE 0)

\* risk = entry_px - stop
Risk(ent) == RSub(ent.entry_px, ent.stop)

\* a variant of Qty that sizes every position from the initial equity
QtyFromInitialEquity(eq, ent) ==
    IF RGt(Risk(ent), R(0))
    THEN RDiv(RMul(R(INITIAL_EQUITY), RISK_PCT), Risk(ent)) ELSE R(0)

\* qty = (equity * RISK_PCT) / risk if risk > 0 else 0
Qty(eq, ent) ==
    IF RGt(Risk(ent), R(0)) THEN RDiv(RMul(eq, RISK_PCT), Risk(ent)) ELSE R(0)

NewPosition(day, eq, ent) ==
    [coin       |-> ent.coin,
     entry_date |-> day,
     entry_px   |-> ent.entry_px,
     qty        |-> Qty(eq, ent),
     bars_held  |-> 0]

\* "for ent in todays[:slots]": the rows that become positions, in order
RECURSIVE Taken(_, _)
Taken(rows, eq) ==
    IF rows = <<>> THEN <<>>
    ELSE IF RLe(Qty(eq, entries[Head(rows)]), R(0)) THEN Taken(Tail(rows), eq)
    ELSE <<Head(rows)>> \o Taken(Tail(rows), eq)

\* a variant of ShouldExit that is off by one day
ShouldExitLate(bars_held) == bars_held > HARD_HOLD_DAYS

\* pos["bars_held"] >= HARD_HOLD_DAYS
ShouldExit(bars_held) == bars_held >= HARD_HOLD_DAYS

\* a variant of Pnl that books the exit one stop distance below the entry
PnlAtLoss(pos) == RNeg(RMul(RMul(pos.entry_px, STOP_FLOOR), pos.qty))

\* pnl = pos["entry_px"] * 0.1 * pos["qty"]
\* (v2: (entry_px * 1.1 - entry_px) * qty, the same number)
Pnl(pos) == RMul(RMul(pos.entry_px, PAYOFF), pos.qty)

Aged(pos) == [pos EXCEPT !.bars_held = @ + 1]

\* the dict of trades.append(...)
TradeOf(pos, day) ==
    [coin       |-> pos.coin,
     entry_date |-> pos.entry_date,
     exit_date  |-> day,
     pnl        |-> Pnl(pos),
     reason     |-> "time"]

\* a variant of ExitLoop that closes whatever is open on the last day
RECURSIVE ExitLoopClosingAtEnd(_, _, _, _, _)
ExitLoopClosingAtEnd(open, still, trs, eq, day) ==
    IF open = <<>> THEN <<still, trs, eq>>
    ELSE LET pos == Aged(Head(open))
         IN  IF ShouldExit(pos.bars_held) \/ day = NumDays
             THEN ExitLoopClosingAtEnd(Tail(open), still,
                                       Append(trs, TradeOf(pos, day)),
                                       RAdd(eq, Pnl(pos)), day)
             ELSE ExitLoopClosingAtEnd(Tail(open), Append(still, pos), trs, eq, day)

\* a variant of ExitLoop that puts a new trade in front of the log
RECURSIVE ExitLoopPrepending(_, _, _, _, _)
ExitLoopPrepending(open, still, trs, eq, day) ==
    IF open = <<>> THEN <<still, trs, eq>>
    ELSE LET pos == Aged(Head(open))
         IN  IF ShouldExit(pos.bars_held)
             THEN ExitLoopPrepending(Tail(open), still, <<TradeOf(pos, day)>> \o trs,
                                     RAdd(eq, Pnl(pos)), day)
             ELSE ExitLoopPrepending(Tail(open), Append(still, pos), trs, eq, day)

\* a variant of ExitLoop that leaves a closed position in still_open
RECURSIVE ExitLoopKeepingClosed(_, _, _, _, _)
ExitLoopKeepingClosed(open, still, trs, eq, day) ==
    IF open = <<>> THEN <<still, trs, eq>>
    ELSE LET pos == Aged(Head(open))
         IN  IF ShouldExit(pos.bars_held)
             THEN ExitLoopKeepingClosed(Tail(open), Append(still, pos),
                                        Append(trs, TradeOf(pos, day)),
                                        RAdd(eq, Pnl(pos)), day)
             ELSE ExitLoopKeepingClosed(Tail(open), Append(still, pos), trs, eq, day)

\* the exit loop over open_positions: <<still_open, trades, equity>> after it
RECURSIVE ExitLoop(_, _, _, _, _)
ExitLoop(open, still, trs, eq, day) ==
    IF open = <<>> THEN <<still, trs, eq>>
    ELSE LET pos == Aged(Head(open))
         IN  IF ShouldExit(pos.bars_held)
             THEN ExitLoop(Tail(open), still, Append(trs, TradeOf(pos, day)),
                           RAdd(eq, Pnl(pos)), day)
             ELSE ExitLoop(Tail(open), Append(still, pos), trs, eq, day)

\* ------------------------------------------------------------ actions
coinIdle ==
    /\ df = <<>>
    /\ cpc = "idle"
    /\ sig_idxs = <<>>
    /\ k = 0
    /\ coin_entries = <<>>
    /\ calls = <<>>
    /\ origin = <<>>

Init ==
    /\ version \in Versions
    /\ pending = Coins
    /\ entries = <<>>
    /\ pc = "collect"
    /\ d = 1
    /\ equity = R(INITIAL_EQUITY)
    /\ open_positions = <<>>
    /\ trades = <<>>
    /\ curve = <<>>
    /\ admitted = <<>>
    /\ results = [c \in Coins |-> [state |-> "pending", list |-> <<>>]]
    /\ coinIdle
    /\ dailyIdle
    /\ fetchIdle
    /\ marketIdle
    /\ serviceIdle

\* "for f in as_completed(futures): entries.extend(f.result())": the future
\* of some coin completes next and its list is appended
Collect(c) ==
    /\ pc = "collect"
    /\ c \in pending
    /\ \E out \in FutureOutcomes(c) :
          /\ entries' = Extended(entries, out)
          /\ results' = [results EXCEPT ![c] = out]
          /\ pc' = AfterFuture(out)
    /\ pending' = pending \ {c}
    /\ UNCHANGED <<version, d, equity, open_positions, trades, curve, admitted>>
    /\ UNCHANGED coinVars
    /\ UNCHANGED <<dailyVars, fetchVars, marketVars, serviceVars>>

\* after the pool: v3 runs the day loop only "if not entries_df.empty"
BeginSimulation ==
    /\ pc = "collect"
    /\ pending = {}
    /\ pc' = IF version = "v3" /\ entries = <<>> THEN "done" ELSE "admit"
    /\ UNCHANGED <<version, pending, entries, d, equity, open_positions, trades,
                   curve, admitted, results>>
    /\ UNCHANGED coinVars
    /\ UNCHANGED <<dailyVars, fetchVars, marketVars, serviceVars>>

\* the first half of the body of "for d in all_dates": admissions
Admit ==
    /\ pc = "admit"
    /\ LET taken == Taken(SliceTo(Todays(d), Slots(open_positions)), equity)
       IN  /\ open_positions' = open_positions \o
                  [i \in 1..Len(taken) |-> NewPosition(d, equity, entries[taken[i]])]
           /\ admitted' = admitted \o
                  [i \in 1..Len(taken) |->
                      [row |-> taken[i], day |-> d, qty |-> Qty(equity, entries[taken[i]])]]
    /\ pc' = "exit"
    /\ UNCHANGED <<version, pending, entries, d, equity, trades, curve, results>>
    /\ UNCHANGED coinVars
    /\ UNCHANGED <<dailyVars, fetchVars, marketVars, serviceVars>>

\* the second half: ageing, exits, the day's equity point, the next day
Exit ==
    /\ pc = "exit"
    /\ LET r == ExitLoop(open_positions, <<>>, trades, equity, d)
       IN  /\ open_positions' = r[1]
           /\ trades' = r[2]
           /\ equity' = r[3]
           /\ curve' = Append(curve, [date |-> d, equity |-> r[3]])
    /\ d' = IF d < NumDays THEN d + 1 ELSE d
    /\ pc' = IF d < NumDays THEN "admit" ELSE "done"
    /\ UNCHANGED <<version, pending, entries, admitted, results>>
    /\ UNCHANGED coinVars
    /\ UNCHANGED <<dailyVars, fetchVars, marketVars, serviceVars>>

Next ==
    \/ \E c \in Coins : Collect(c)
    \/ BeginSimulation
    \/ Admit
    \/ Exit

Spec == Init /\ [][Next]_vars

\* ------------------------------------------------- the daily frame df
\* df.loc[i, ...]: rows are numbered from 0 as in the program
Row(frame, i) == frame[i + 1]

\* len(df)
NRows(frame) == Len(frame)

\* Python's None, returned by first_confirmation_idx
None == -1

\* a function on 1..n as a sequence whose elements are computed once
AsSeq(f) == SubSeq(f, 1, Len(f))

\* close.pct_change(n) at index i
PctChange(raw, i, n) ==
    IF i < n THEN NaN
    ELSE RSub(RDiv(Row(raw, i).close, Row(raw, i - n).close), R(1))

\* close.diff().abs() at index i
TrueRange(raw, i) ==
    IF i < 1 THEN NaN ELSE RAbs(RSub(Row(raw, i).close, Row(raw, i - 1).close))

RECURSIVE RSum(_, _, _)
RSum(col, lo, hi) == IF lo > hi THEN R(0) ELSE RAdd(col[lo], RSum(col, lo + 1, hi))

\* a variant of RollingMean that averages whatever part of the window holds
\* numbers (min_periods=1)
RollingMeanPartial(col, i, w) ==
    LET lo   == IF i + 2 - w < 1 THEN 1 ELSE i + 2 - w
        have == {p \in lo..(i + 1) : ~IsNaN(col[p])}
        vals == [p \in 1..(i + 1) |-> IF p \in have THEN col[p] ELSE R(0)]
    IN  IF have = {} THEN NaN
        ELSE RDiv(RSum(vals, lo, i + 1), R(Cardinality(have)))

\* col.rolling(w, min_periods=w).mean() at index i; col is numbered from 1
RollingMean(col, i, w) ==
    IF i + 1 < w THEN NaN
    ELSE IF \E p \in (i + 2 - w)..(i + 1) : IsNaN(col[p]) THEN NaN
    ELSE RDiv(RSum(col, i + 2 - w, i + 1), R(w))

\* to_daily_df(), lines 112-117: the derived columns
Derive(raw) ==
    LET tr  == AsSeq([p \in 1..Len(raw) |-> TrueRange(raw, p - 1)])
        vol == AsSeq([p \in 1..Len(raw) |-> raw[p].vol])
    IN  [p \in 1..Len(raw) |->
            [date     |-> raw[p].date,
             close    |-> raw[p].close,
             mcap     |-> raw[p].mcap,
             vol      |-> raw[p].vol,
             ret1     |-> PctChange(raw, p - 1, 1),
             ret2     |-> PctChange(raw, p - 1, 2),
             tr       |-> tr[p],
             atr      |-> RollingMean(tr, p - 1, ATR_LEN),
             vol_ma10 |-> RollingMean(vol, p - 1, VOL_MA_LEN)]]

\* ----------------------------------------- the frames the model tries
\* to_daily_df returns a frame only with at least ATR_LEN + 5 rows
MinRows == ATR_LEN + 5

ClosePatterns == {"flat", "zigzag"}

VolPatterns == {"steady", "none"}

McapPatterns == {"low", "high", "gaps"}

\* where the freely chosen rows start: before atr is defined, and after
WinStarts == {VOL_MA_LEN, ATR_LEN + 2}

WinCloses == {R(0), R(1), R(2), R(3)}

WinVols == {R(4), R(9)}

BaseClose(cp, i) == IF cp = "zigzag" /\ i % 2 = 1 THEN R(2) ELSE R(1)

BaseVol(vp) == IF vp = "steady" THEN R(4) ELSE R(0)

\* market caps at and around the two bounds of the band, and missing ones
BaseMcap(mp, i) ==
    IF mp = "low" THEN (IF i % 2 = 0 THEN R(MCAP_MIN) ELSE R(MCAP_MIN - 1))
    ELSE IF mp = "high" THEN (IF i % 2 = 0 THEN R(MCAP_MAX + 1) ELSE R(MCAP_MAX))
    ELSE (IF i % 2 = 0 THEN NaN ELSE R(MCAP_MIN + 1))

RawRow(cp, vp, mp, off, w, i) ==
    LET in == i >= off /\ i < off + WinLen
    IN  [date  |-> i + 1,
         close |-> IF in THEN w[i - off][1] ELSE BaseClose(cp, i),
         mcap  |-> BaseMcap(mp, i),
         vol   |-> IF in THEN w[i - off][2] ELSE BaseVol(vp)]

\* one row per day, MinRows days from the first day of the window
RawFrame(cp, vp, mp, off, w) ==
    AsSeq([p \in 1..MinRows |-> RawRow(cp, vp, mp, off, w, p - 1)])

\* ------------------------------------------------------- find_signals
OneDay(frame, i) ==
    IF ~IsNaN(Row(frame, i).ret1) THEN RAdd(R(1), Row(frame, i).ret1) ELSE R(0)

TwoDay(frame, i) ==
    IF ~IsNaN(Row(frame, i).ret2) THEN RAdd(R(1), Row(frame, i).ret2) ELSE R(0)

IsSignal(frame, i) ==
    RGe(OneDay(frame, i), ONE_DAY_PUMP) \/ RGe(TwoDay(frame, i), TWO_DAY_PUMP)

\* "for i in range(from, len(df))"
RECURSIVE SignalsFrom(_, _)
SignalsFrom(frame, i) ==
    IF i >= NRows(frame) THEN <<>>
    ELSE (IF IsSignal(frame, i) THEN <<i>> ELSE <<>>) \o SignalsFrom(frame, i + 1)

\* a variant of find_signals that scans from index 1
find_signals_from_1(frame) == SignalsFrom(frame, 1)

find_signals(frame) == SignalsFrom(frame, 2)

\* --------------------------------------------- first_confirmation_idx
\* a variant of ConfirmEnd whose window is one index too long
ConfirmEndWide(frame, sig_idx) ==
    IF sig_idx + CONFIRM_SPAN + 1 < NRows(frame)
    THEN sig_idx + CONFIRM_SPAN + 1 ELSE NRows(frame)

\* min(sig_idx + 6, len(df))
ConfirmEnd(frame, sig_idx) ==
    IF sig_idx + CONFIRM_SPAN < NRows(frame) THEN sig_idx + CONFIRM_SPAN ELSE NRows(frame)

\* the three "continue" tests of the loop body
Skipped(frame, j) ==
    \/ RLe(Row(frame, j).close, Row(frame, j - 1).close)
    \/ IsNaN(Row(frame, j).vol_ma10) \/ Row(frame, j).vol_ma10 = R(0)
    \/ RLt(RDiv(Row(frame, j).vol, Row(frame, j).vol_ma10), VOL_MULT_MIN)

RECURSIVE ConfirmFrom(_, _, _)
ConfirmFrom(frame, j, end) ==
    IF j >= end THEN None
    ELSE IF Skipped(frame, j) THEN ConfirmFrom(frame, j + 1, end)
    ELSE j

first_confirmation_idx(frame, sig_idx) ==
    ConfirmFrom(frame, sig_idx + 1, ConfirmEnd(frame, sig_idx))

\* ------------------------------------------------------- process_coin
\* c["id"] of the coin being processed
Cid == 1

\* a variant of SignalMcap that reads the market cap of the confirmation day
McapAtConfirmation(frame, sidx) ==
    LET c == first_confirmation_idx(frame, sidx)
    IN  IF c = None THEN Row(frame, sidx).mcap ELSE Row(frame, c).mcap

\* mcap = df.loc[sidx, "mcap"]
SignalMcap(frame, sidx) == Row(frame, sidx).mcap

\* "if pd.isna(mcap) or not (MCAP_MIN <= mcap <= MCAP_MAX): continue"
McapRejected(mcap) ==
    IsNaN(mcap) \/ ~(RLe(R(MCAP_MIN), mcap) /\ RLe(mcap, R(MCAP_MAX)))

\* "if not (START_DT <= entry_date <= END_DT): continue"
DateRejected(date) == ~(1 <= date /\ date <= NumDays)

\* "if pd.isna(atr) or atr == 0: continue"
AtrRejected(atr) == IsNaN(atr) \/ atr = R(0)

\* one iteration of "for sidx in sig_idxs": the first_confirmation_idx call
\* it makes (if any) and the entry it appends (if any)
Iteration(frame, sidx) ==
    IF McapRejected(SignalMcap(frame, sidx))
    THEN [calls |-> <<>>, entries |-> <<>>, origin |-> <<>>]
    ELSE LET cidx == first_confirmation_idx(frame, sidx)
             row  == Row(frame, cidx)
             skip == [calls |-> <<<<sidx, cidx>>>>, entries |-> <<>>, origin |-> <<>>]
         IN  IF cidx = None THEN skip
             ELSE IF DateRejected(row.date) THEN skip
             ELSE IF AtrRejected(row.atr) THEN skip
             ELSE IF StopRejected(RawStop(EntryPx(row.close), row.atr), EntryPx(row.close))
             THEN skip
             ELSE [calls   |-> <<<<sidx, cidx>>>>,
                   entries |-> <<MakeEntry(row.date, Cid, row.close, row.atr,
                                           row.vol, row.vol_ma10)>>,
                   origin  |-> <<<<sidx, cidx>>>>]

simIdle ==
    /\ version = "v3"
    /\ pending = {}
    /\ entries = <<>>
    /\ pc = "idle"
    /\ d = 1
    /\ equity = R(INITIAL_EQUITY)
    /\ open_positions = <<>>
    /\ trades = <<>>
    /\ curve = <<>>
    /\ admitted = <<>>
    /\ results = <<>>

\* process_coin() after to_daily_df returned a frame
InitCoin ==
    /\ simIdle
    /\ dailyIdle
    /\ fetchIdle
    /\ marketIdle
    /\ serviceIdle
    /\ \E cp \in ClosePatterns, vp \in VolPatterns, mp \in McapPatterns,
          off \in WinStarts, w \in [0..(WinLen - 1) -> WinCloses \X WinVols] :
          df = Derive(RawFrame(cp, vp, mp, off, w))
    /\ cpc = "scan"
    /\ sig_idxs = <<>>
    /\ k = 0
    /\ coin_entries = <<>>
    /\ calls = <<>>
    /\ origin = <<>>

\* sig_idxs = find_signals(df)
Scan ==
    /\ cpc = "scan"
    /\ sig_idxs' = find_signals(df)
    /\ k' = 1
    /\ cpc' = "loop"
    /\ UNCHANGED <<df, coin_entries, calls, origin>>
    /\ UNCHANGED simVars
    /\ UNCHANGED <<dailyVars, fetchVars, marketVars, serviceVars>>

\* one iteration of "for sidx in sig_idxs"
Iterate ==
    /\ cpc = "loop"
    /\ k <= Len(sig_idxs)
    /\ LET it == Iteration(df, sig_idxs[k])
       IN  /\ calls' = calls \o it.calls
           /\ coin_entries' = coin_entries \o it.entries
           /\ origin' = origin \o it.origin
    /\ k' = k + 1
    /\ UNCHANGED <<df, cpc, sig_idxs>>
    /\ UNCHANGED simVars
    /\ UNCHANGED <<dailyVars, fetchVars, marketVars, serviceVars>>

\* return entries
Return ==
    /\ cpc = "loop"
    /\ k > Len(sig_idxs)
    /\ cpc' = "returned"
    /\ UNCHANGED <<df, sig_idxs, k, coin_entries, calls, origin>>
    /\ UNCHANGED simVars
    /\ UNCHANGED <<dailyVars, fetchVars, marketVars, serviceVars>>

NextCoin ==
    \/ Scan
    \/ Iterate
    \/ Return

SpecCoin == InitCoin /\ [][NextCoin]_vars

\* -------------------------------------------------------- to_daily_df
\* Timestamps are counted in hours, hour 0 being START_DT (00:00 UTC of
\* day 1); the program's are milliseconds.
HoursPerDay == 24

\* pd.to_datetime(ts, unit="ms", utc=True).dt.normalize(), as a day number
DateOf(ts) == (ts \div HoursPerDay) + 1

\* market_chart_range asks for START - 5 days .. END + 1 day
FetchFrom == 1 - 5

FirstDays == {FetchFrom, 1, 2, 3}

LastDays == {NumDays - 1, NumDays, NumDays + 1}

\* days for which the provider has no sample
Holes == {{}, {2}, {2, 3}}

SamplesPerDay == {1, 2}

\* what market_chart_range can hand over: None, a dict without "prices", data
McKinds == {"none", "no_prices", "data"}

\* the n-th sample of a day, taken every twelve hours; later samples of a
\* day carry other values than earlier ones
Sample(day, n) ==
    [ts    |-> (day - 1) * HoursPerDay + (n - 1) * 12,
     close |-> R(10 * (day + 5) + n),
     mcap  |-> R(MCAP_MIN + n),
     vol   |-> IF n = 1 THEN R(4) ELSE NaN]

RECURSIVE SamplesFrom(_, _, _, _)
SamplesFrom(day, last, holes, n) ==
    IF day > last THEN <<>>
    ELSE (IF day \in holes THEN <<>> ELSE [i \in 1..n |-> Sample(day, i)])
             \o SamplesFrom(day + 1, last, holes, n)

\* the keys of df.groupby("date"), which come out sorted
RECURSIVE Ascending(_)
Ascending(S) ==
    IF S = {} THEN <<>>
    ELSE LET m == CHOOSE x \in S : \A y \in S : x <= y
         IN  <<m>> \o Ascending(S \ {m})

\* agg "last": the last value of the group that is not NaN, NaN if none
RECURSIVE LastValid(_, _, _, _)
LastValid(samples, i, day, col) ==
    IF i = 0 THEN NaN
    ELSE IF DateOf(samples[i].ts) = day /\ ~IsNaN(samples[i][col])
         THEN samples[i][col]
         ELSE LastValid(samples, i - 1, day, col)

\* lines 101-107: one row per UTC calendar day
GroupByDate(samples) ==
    LET days == Ascending({DateOf(samples[i].ts) : i \in 1..Len(samples)})
    IN  AsSeq([p \in 1..Len(days) |->
                  [date  |-> days[p],
                   close |-> LastValid(samples, Len(samples), days[p], "close"),
                   mcap  |-> LastValid(samples, Len(samples), days[p], "mcap"),
                   vol   |-> LastValid(samples, Len(samples), days[p], "vol")]])

\* lines 108-109: normalize(START) <= date <= normalize(END)
InWindow(row) == 1 <= row.date /\ row.date <= NumDays

\* a variant of TooShort that only asks for a full ATR window
TooShortForAtr(frame) == Len(frame) < ATR_LEN

\* "if len(df) < ATR_LEN + 5: return None"
TooShort(frame) == Len(frame) < MinRows

simOff ==
    /\ simIdle
    /\ coinIdle

InitDaily ==
    /\ simOff
    /\ fetchIdle
    /\ marketIdle
    /\ serviceIdle
    /\ \E kind \in McKinds, first \in FirstDays, last \in LastDays,
          holes \in Holes, n \in SamplesPerDay :
          mc = [kind    |-> kind,
                samples |-> IF kind = "data"
                            THEN SamplesFrom(first, last, holes, n) ELSE <<>>]
    /\ tdf = <<>>
    /\ tpc = "start"

\* "if not mc or "prices" not in mc: return None"
NoPrices ==
    /\ tpc = "start"
    /\ mc.kind # "data"
    /\ tpc' = "none"
    /\ UNCHANGED <<mc, tdf>>
    /\ UNCHANGED <<simVars, coinVars, fetchVars, marketVars, serviceVars>>

Group ==
    /\ tpc = "start"
    /\ mc.kind = "data"
    /\ tdf' = GroupByDate(mc.samples)
    /\ tpc' = "grouped"
    /\ UNCHANGED mc
    /\ UNCHANGED <<simVars, coinVars, fetchVars, marketVars, serviceVars>>

Filter ==
    /\ tpc = "grouped"
    /\ tdf' = SelectSeq(tdf, InWindow)
    /\ tpc' = "filtered"
    /\ UNCHANGED mc
    /\ UNCHANGED <<simVars, coinVars, fetchVars, marketVars, serviceVars>>

ReturnNone ==
    /\ tpc = "filtered"
    /\ TooShort(tdf)
    /\ tpc' = "none"
    /\ UNCHANGED <<mc, tdf>>
    /\ UNCHANGED <<simVars, coinVars, fetchVars, marketVars, serviceVars>>

ReturnFrame ==
    /\ tpc = "filtered"
    /\ ~TooShort(tdf)
    /\ tdf' = Derive(tdf)
    /\ tpc' = "frame"
    /\ UNCHANGED mc
    /\ UNCHANGED <<simVars, coinVars, fetchVars, marketVars, serviceVars>>

NextDaily ==
    \/ NoPrices
    \/ Group
    \/ Filter
    \/ ReturnNone
    \/ ReturnFrame

SpecDaily == InitDaily /\ [][NextDaily]_vars

\* ----------------------------------------------------------- safe_get
Scripts == {"v3", "data_sources"}

\* "for attempt in range(6)" in exploders_backtest_v3.py
V3_ATTEMPTS == 6

\* MAX_ATTEMPTS of data_sources.py
MAX_ATTEMPTS == 5

Attempts(sc) == IF sc = "v3" THEN V3_ATTEMPTS ELSE MAX_ATTEMPTS

\* What one requests.get can meet: a good response; HTTP 429 without a
\* Retry-After header, with one in seconds, with one as an HTTP date (both
\* forms are allowed for the header); a request exception, which includes the
\* HTTPError of raise_for_status.
Replies == {"ok", "429", "429_seconds", "429_date", "failed"}

\* float(retry_after) succeeds on a number of seconds only
FloatParses(reply) == reply # "429_date"

\* where one pass of the loop body ends: "return", "next" (sleep and go on)
\* or "raise" (an exception that "except RequestException" does not catch)
Handled(sc, reply) ==
    IF reply = "ok" THEN "return"
    ELSE IF reply = "failed" THEN "next"
    ELSE IF sc = "v3" /\ reply # "429" /\ ~FloatParses(reply) THEN "raise"
    ELSE "next"

simCoinDailyOff ==
    /\ simOff
    /\ dailyIdle

InitFetch ==
    /\ simCoinDailyOff
    /\ marketIdle
    /\ serviceIdle
    /\ script \in Scripts
    /\ attempt = 0
    /\ requests = 0
    /\ replies = <<>>
    /\ fpc = "loop"

\* one pass of "for attempt in range(...)": the request and what follows it
Request ==
    /\ fpc = "loop"
    /\ attempt < Attempts(script)
    /\ \E reply \in Replies :
          /\ replies' = Append(replies, reply)
          /\ fpc' = IF Handled(script, reply) = "return" THEN "returned"
                    ELSE IF Handled(script, reply) = "raise" THEN "raised"
                    ELSE "loop"
    /\ requests' = requests + 1
    /\ attempt' = attempt + 1
    /\ UNCHANGED script
    /\ UNCHANGED <<simVars, coinVars, dailyVars, marketVars, serviceVars>>

\* the loop is exhausted: "Max retries reached", return None
GiveUp ==
    /\ fpc = "loop"
    /\ attempt >= Attempts(script)
    /\ fpc' = "none"
    /\ UNCHANGED <<script, attempt, requests, replies>>
    /\ UNCHANGED <<simVars, coinVars, dailyVars, marketVars, serviceVars>>

NextFetch ==
    \/ Request
    \/ GiveUp

SpecFetch == InitFetch /\ [][NextFetch]_vars

\* ----------------------------------------- get_combined_market_data
\* symbols as the providers spell them: CoinGecko in lower case,
\* CoinMarketCap in upper case; one provider can list a symbol twice
GeckoSymbols == {"btc", "eth"}

CmcSymbols == {"BTC", "ETH", "SOL"}

\* str.upper() on these symbols
Upper(sym) ==
    IF sym = "btc" THEN "BTC"
    ELSE IF sym = "eth" THEN "ETH"
    ELSE sym

\* the lists of raw symbols a provider can answer with; the empty list also
\* stands for "safe_get returned None"
Listings(symbols) == UNION {[1..n -> symbols] : n \in 0..MaxListed}

\* get_from_coingecko / get_from_coinmarketcap: one dict per listed asset
FromProvider(source, raw) ==
    [i \in 1..Len(raw) |->
        [id |-> i, symbol |-> Upper(raw[i]), source |-> source]]

\* a variant of IsNew that lets every asset through
IsNewAlways(coin, seen_symbols) == TRUE

\* "symbol = coin["symbol"].upper(); if symbol not in seen"
IsNew(coin, seen_symbols) == Upper(coin.symbol) \notin seen_symbols

allButMarketOff ==
    /\ simCoinDailyOff
    /\ fetchIdle

InitMarket ==
    /\ allButMarketOff
    /\ serviceIdle
    /\ cg = <<>>
    /\ cmc = <<>>
    /\ all_data = <<>>
    /\ seen = {}
    /\ unique_data = <<>>
    /\ mi = 0
    /\ mpc = "cg"

\* cg = get_from_coingecko(); if cg: all_data.extend(cg)
FetchCoinGecko ==
    /\ mpc = "cg"
    /\ \E raw \in Listings(GeckoSymbols) :
          /\ cg' = FromProvider("coingecko", raw)
          /\ all_data' = all_data \o FromProvider("coingecko", raw)
    /\ mpc' = "cmc"
    /\ UNCHANGED <<cmc, seen, unique_data, mi>>
    /\ UNCHANGED <<simVars, coinVars, dailyVars, fetchVars, serviceVars>>

\* cmc = get_from_coinmarketcap(); if cmc: all_data.extend(cmc)
FetchCoinMarketCap ==
    /\ mpc = "cmc"
    /\ \E raw \in Listings(CmcSymbols) :
          /\ cmc' = FromProvider("coinmarketcap", raw)
          /\ all_data' = all_data \o FromProvider("coinmarketcap", raw)
    /\ mpc' = "dedup"
    /\ mi' = 1
    /\ UNCHANGED <<cg, seen, unique_data>>
    /\ UNCHANGED <<simVars, coinVars, dailyVars, fetchVars, serviceVars>>

\* one pass of "for coin in all_data"
Dedup ==
    /\ mpc = "dedup"
    /\ mi <= Len(all_data)
    /\ IF IsNew(all_data[mi], seen)
       THEN /\ seen' = seen \cup {Upper(all_data[mi].symbol)}
            /\ unique_data' = Append(unique_data, all_data[mi])
       ELSE UNCHANGED <<seen, unique_data>>
    /\ mi' = mi + 1
    /\ UNCHANGED <<cg, cmc, all_data, mpc>>
    /\ UNCHANGED <<simVars, coinVars, dailyVars, fetchVars, serviceVars>>

\* return unique_data
ReturnUnique ==
    /\ mpc = "dedup"
    /\ mi > Len(all_data)
    /\ mpc' = "returned"
    /\ UNCHANGED <<cg, cmc, all_data, seen, unique_data, mi>>
    /\ UNCHANGED <<simVars, coinVars, dailyVars, fetchVars, serviceVars>>

NextMarket ==
    \/ FetchCoinGecko
    \/ FetchCoinMarketCap
    \/ Dedup
    \/ ReturnUnique

SpecMarket == InitMarket /\ [][NextMarket]_vars

\* ============================================================== app.py
\* The service runs the backtest script as a child process.  One daemon
\* thread, the daily scheduler, does so in an endless loop with a day's
\* sleep between passes; every GET /run starts one more thread that does so
\* once.  Each statement of run_backtest_script is a step of its thread,
\* and the threads' steps interleave freely: the program takes no lock.
\* A reading of the wall clock is a tick number; every reading advances
\* the clock, so that readings are distinct and ordered in time.

\* the thread started in the main block
Scheduler == 0

\* the threads started by the /run handler, one per request
RequestThreads == 1..NumRequests

Threads == {Scheduler} \cup RequestThreads

\* where a thread goes when run_backtest_script returns: the scheduler
\* sleeps inside its loop, a request thread ends
AfterRun(t) == IF t = Scheduler THEN "sleeping" ELSE "ended"

InitService ==
    /\ allButMarketOff
    /\ marketIdle
    /\ tpos = [t \in Threads |-> IF t = Scheduler THEN "clock" ELSE "unborn"]
    /\ now_adl = [t \in Threads |-> None]
    /\ last_run_time = None
    /\ active = {}
    /\ clock = 0
    /\ auto_runs = 1

\* GET /run: the handler starts a thread on run_backtest_script and answers
\* at once
run_backtest_manual(r) ==
    /\ tpos[r] = "unborn"
    /\ \A q \in RequestThreads : q < r => tpos[q] # "unborn"
    /\ tpos' = [tpos EXCEPT ![r] = "clock"]
    /\ UNCHANGED <<now_adl, last_run_time, active, clock, auto_runs>>
    /\ UNCHANGED <<simVars, coinVars, dailyVars, fetchVars, marketVars>>

\* now_utc = datetime.now(timezone.utc); now_adl = now_utc.astimezone(...)
ReadClock(t) ==
    /\ tpos[t] = "clock"
    /\ clock' = clock + 1
    /\ now_adl' = [now_adl EXCEPT ![t] = clock + 1]
    /\ tpos' = [tpos EXCEPT ![t] = "set"]
    /\ UNCHANGED <<last_run_time, active, auto_runs>>
    /\ UNCHANGED <<simVars, coinVars, dailyVars, fetchVars, marketVars>>

\* last_run_time = now_adl.strftime(...)
SetLastRun(t) ==
    /\ tpos[t] = "set"
    /\ last_run_time' = now_adl[t]
    /\ tpos' = [tpos EXCEPT ![t] = "spawn"]
    /\ UNCHANGED <<now_adl, active, clock, auto_runs>>
    /\ UNCHANGED <<simVars, coinVars, dailyVars, fetchVars, marketVars>>

\* subprocess.run([...]) starts the script and waits for it
StartScript(t) ==
    /\ tpos[t] = "spawn"
    /\ active' = active \cup {t}
    /\ tpos' = [tpos EXCEPT ![t] = "running"]
    /\ UNCHANGED <<now_adl, last_run_time, clock, auto_runs>>
    /\ UNCHANGED <<simVars, coinVars, dailyVars, fetchVars, marketVars>>

\* the script exits, with whatever status (check=False), and
\* run_backtest_script returns
EndScript(t) ==
    /\ tpos[t] = "running"
    /\ active' = active \ {t}
    /\ tpos' = [tpos EXCEPT ![t] = AfterRun(t)]
    /\ UNCHANGED <<now_adl, last_run_time, clock, auto_runs>>
    /\ UNCHANGED <<simVars, coinVars, dailyVars, fetchVars, marketVars>>

\* daily_scheduler: time.sleep(24 * 3600) is over, the loop calls
\* run_backtest_script again
daily_scheduler ==
    /\ tpos[Scheduler] = "sleeping"
    /\ auto_runs < MaxAutoRuns
    /\ auto_runs' = auto_runs + 1
    /\ tpos' = [tpos EXCEPT ![Scheduler] = "clock"]
    /\ UNCHANGED <<now_adl, last_run_time, active, clock>>
    /\ UNCHANGED <<simVars, coinVars, dailyVars, fetchVars, marketVars>>

NextService ==
    \/ \E r \in RequestThreads : run_backtest_manual(r)
    \/ \E t \in Threads : ReadClock(t)
    \/ \E t \in Threads : SetLastRun(t)
    \/ \E t \in Threads : StartScript(t)
    \/ \E t \in Threads : EndScript(t)
    \/ daily_scheduler

SpecService == InitService /\ [][NextService]_vars

\* ===================================================== portfolio claims
\* days whose loop body has run to its end
DaysDone == Len(curve)

\* the admissions of day `day` are over
AdmissionsDone(day) == pc = "done" \/ day < d \/ (day = d /\ pc = "exit")

\* rows of entries_df that became a position
AdmittedRows == {admitted[i].row : i \in 1..Len(admitted)}

\* the running equity at the start of day `day`, read off the equity curve
EquityBefore(day) == IF day = 1 THEN R(INITIAL_EQUITY) ELSE curve[day - 1].equity

\* C1: at every point of every simulated day, after the admissions and after
\* the exits, at most MAX_CONCURRENT positions are open.
C1_CapacityBound == Len(open_positions) <= MAX_CONCURRENT

\* C1 witness: right after the admissions of a day the portfolio is full and
\* a candidate of that day was left out.
C1_Witness ==
    /\ pc = "exit"
    /\ Len(open_positions) = MAX_CONCURRENT
    /\ \E r \in Rows : entries[r].date = d /\ r \notin AdmittedRows

\* C2: in v3, on every day, every admitted candidate has a volume multiple at
\* least that of every candidate of the same day that was not admitted.
C2_RankedAdmission ==
    version = "v3" =>
        \A i, j \in Rows :
            (/\ entries[i].date = entries[j].date
             /\ AdmissionsDone(entries[i].date)
             /\ i \in AdmittedRows
             /\ j \notin AdmittedRows)
            => RGe(entries[i].vol_mult, entries[j].vol_mult)

\* C3: in v3, for every input, the empty one included, the finished run has
\* one equity point for each day of the window, in date order, without gaps.
C3_CurveCoversWindow ==
    (version = "v3" /\ pc = "done") =>
        /\ Len(curve) = NumDays
        /\ \A i \in 1..Len(curve) : curve[i].date = i

\* C4: the holding-period timer is the only exit and fires on the 10th held
\* day: every trade has exit_date = entry_date + HARD_HOLD_DAYS - 1 and reason
\* "time"; at the end of every day an open position has
\* 1 <= bars_held <= HARD_HOLD_DAYS - 1, the number of days it was held; a
\* position is closed exactly when its 10th day is over.
C4_HoldingPeriod ==
    /\ \A i \in 1..Len(trades) :
          /\ trades[i].exit_date = trades[i].entry_date + (HARD_HOLD_DAYS - 1)
          /\ trades[i].reason = "time"
          /\ trades[i].exit_date <= DaysDone + 1
    /\ pc \in {"admit", "done"} =>
          /\ \A i \in 1..Len(open_positions) :
                /\ 1 <= open_positions[i].bars_held
                /\ open_positions[i].bars_held <= HARD_HOLD_DAYS - 1
                /\ open_positions[i].bars_held
                      = DaysDone - open_positions[i].entry_date + 1
          /\ Len(trades) = Cardinality({i \in 1..Len(admitted) :
                              admitted[i].day + (HARD_HOLD_DAYS - 1) <= DaysDone})
          /\ Len(open_positions) = Cardinality({i \in 1..Len(admitted) :
                              admitted[i].day + (HARD_HOLD_DAYS - 1) > DaysDone})
          /\ \A i \in 1..Len(trades) :
                /\ trades[i].entry_date = admitted[i].day
                /\ trades[i].coin = entries[admitted[i].row].coin

\* C4 witness: a day starts with a closed trade in the log and an open
\* position on its last held day before the exit.
C4_Witness ==
    /\ pc = "admit"
    /\ trades # <<>>
    /\ \E i \in 1..Len(open_positions) :
          open_positions[i].bars_held = HARD_HOLD_DAYS - 1

\* C5: every position admitted on day e has quantity
\* (E * RISK_PCT) / (entry_px - stop), E being the equity after all exits of
\* the days before e and before any exit of day e; positions admitted on one
\* day share E (equity 100, entry 10, stop 9 gives quantity 2).
C5_Sizing ==
    /\ \A i \in 1..Len(admitted) :
          LET a   == admitted[i]
              ent == entries[a.row]
          IN  /\ ent.date = a.day
              /\ a.qty = RDiv(RMul(EquityBefore(a.day), RISK_PCT),
                              RSub(ent.entry_px, ent.stop))
    /\ \A i \in 1..Len(open_positions) :
          LET a == admitted[Len(trades) + i]
          IN  /\ open_positions[i].qty = a.qty
              /\ open_positions[i].entry_date = a.day
              /\ open_positions[i].entry_px = entries[a.row].entry_px
    /\ Qty(R(100), [entry_px |-> R(10), stop |-> R(9)]) = R(2)

\* C5 witness: two positions were admitted on one day on which the running
\* equity was no longer the initial one.
C5_Witness ==
    \E i, j \in 1..Len(admitted) :
        /\ i < j
        /\ admitted[i].day = admitted[j].day
        /\ admitted[i].day > 1
        /\ EquityBefore(admitted[i].day) # R(INITIAL_EQUITY)

\* the rows of entries that belong to coin c, in frame order
EntriesOf(c) ==
    LET Of(e) == e.coin = c
    IN  SelectSeq(entries, Of)

RECURSIVE SumPnl(_, _)
SumPnl(trs, n) == IF n = 0 THEN R(0) ELSE RAdd(SumPnl(trs, n - 1), trs[n].pnl)

\* admitted so late that the holding period ends after the window
AdmittedLate(i) == NumDays - admitted[i].day < HARD_HOLD_DAYS - 1

\* C13: a run that ended on the last day of the window leaves open positions
\* open: a position admitted fewer than HARD_HOLD_DAYS - 1 days before the
\* last day has no trade and adds nothing to the final equity, and the number
\* of trades is the number of admitted positions minus those still open.
C13_OpenAtEndKept ==
    (pc = "done" /\ curve # <<>>) =>
        /\ \A i \in 1..Len(admitted) :
              AdmittedLate(i) =>
                 /\ i > Len(trades)
                 /\ open_positions[i - Len(trades)].entry_date = admitted[i].day
                 /\ open_positions[i - Len(trades)].coin = entries[admitted[i].row].coin
        /\ \A i \in 1..Len(trades) :
              NumDays - trades[i].entry_date >= HARD_HOLD_DAYS - 1
        /\ equity = RAdd(R(INITIAL_EQUITY), SumPnl(trades, Len(trades)))
        /\ Len(trades) = Len(admitted) - Len(open_positions)

\* C13 witness: the run is over with a closed trade in the log and a
\* position still open.
C13_Witness ==
    /\ pc = "done"
    /\ trades # <<>>
    /\ open_positions # <<>>
    /\ \E i \in 1..Len(admitted) : AdmittedLate(i)

\* the exit dates of a log never go down
ExitDatesAscend(trs) ==
    \A i \in 1..(Len(trs) - 1) : trs[i].exit_date <= trs[i + 1].exit_date

\* C14: the trade log is append-only and ordered by exit date: every step
\* leaves the trades already in the log as they are, in their places, and
\* the exit dates of the log are non-decreasing at every point.
C14_TradeLogAppendOnly ==
    [][/\ Len(trades') >= Len(trades)
       /\ SubSeq(trades', 1, Len(trades)) = trades
       /\ ExitDatesAscend(trades')]_vars

\* C14 witness: the log holds trades of two different exit dates.
C14_Witness ==
    \E i, j \in 1..Len(trades) : trades[i].exit_date < trades[j].exit_date

\* the lists of the coins joined in the order of the coin numbers
RECURSIVE JoinedUpTo(_)
JoinedUpTo(c) == IF c = 0 THEN <<>> ELSE JoinedUpTo(c - 1) \o results[c].list

\* how often a row occurs in a sequence of rows
Count(seq, e) == Cardinality({i \in 1..Len(seq) : seq[i] = e})

\* the v3 day loop as a function of the entries, for the comparison in C15
RowsOnIn(ents, day) ==
    LET On(e) == e.date = day
    IN  SelectSeq(ents, On)

RECURSIVE TakenIn(_, _)
TakenIn(todays, eq) ==
    IF todays = <<>> THEN <<>>
    ELSE IF RLe(Qty(eq, Head(todays)), R(0)) THEN TakenIn(Tail(todays), eq)
    ELSE <<Head(todays)>> \o TakenIn(Tail(todays), eq)

DayIn(ents, st, day) ==
    LET taken == TakenIn(SliceTo(RowsOnIn(ents, day), Slots(st.open)), st.equity)
        open  == st.open \o [i \in 1..Len(taken) |-> NewPosition(day, st.equity, taken[i])]
        r     == ExitLoop(open, <<>>, st.trades, st.equity, day)
    IN  [open   |-> r[1],
         trades |-> r[2],
         equity |-> r[3],
         curve  |-> Append(st.curve, [date |-> day, equity |-> r[3]])]

RECURSIVE DaysIn(_, _, _)
DaysIn(ents, st, day) ==
    IF day > NumDays THEN st ELSE DaysIn(ents, DayIn(ents, st, day), day + 1)

RunOf(ents) ==
    LET st0 == [open |-> <<>>, trades |-> <<>>, equity |-> R(INITIAL_EQUITY),
                curve |-> <<>>]
    IN  IF ents = <<>> THEN st0 ELSE DaysIn(ents, st0, 1)

RECURSIVE SumPnlBy(_, _, _)
SumPnlBy(trs, n, day) ==
    IF n = 0 THEN R(0)
    ELSE IF trs[n].exit_date <= day
         THEN RAdd(SumPnlBy(trs, n - 1, day), trs[n].pnl)
         ELSE SumPnlBy(trs, n - 1, day)

\* C16: equity is conserved: the equity point of every simulated day is
\* 100 plus the pnl of exactly the trades that exited on or before that day;
\* every admitted position is either still open or closed by one trade,
\* never both and never twice, and its trade carries the pnl that was added
\* to equity.
C16_EquityConserved ==
    /\ \A day \in 1..Len(curve) :
          /\ curve[day].date = day
          /\ curve[day].equity
                = RAdd(R(INITIAL_EQUITY), SumPnlBy(trades, Len(trades), day))
    /\ equity = RAdd(R(INITIAL_EQUITY), SumPnl(trades, Len(trades)))
    /\ Len(trades) + Len(open_positions) = Len(admitted)
    /\ \A i \in 1..Len(trades) :
          /\ trades[i].coin = entries[admitted[i].row].coin
          /\ trades[i].entry_date = admitted[i].day
          /\ trades[i].pnl
                = RMul(RMul(entries[admitted[i].row].entry_px, PAYOFF), admitted[i].qty)
    /\ \A i \in 1..Len(open_positions) :
          /\ open_positions[i].coin = entries[admitted[Len(trades) + i].row].coin
          /\ open_positions[i].entry_date = admitted[Len(trades) + i].day

\* C16 witness: positions were closed on two different days, so the curve
\* shows the initial equity and two higher ones.
C16_Witness ==
    /\ Len(trades) >= 2
    /\ \E a, b \in 1..Len(curve) :
          /\ a < b
          /\ RLt(R(INITIAL_EQUITY), curve[a].equity)
          /\ RLt(curve[a].equity, curve[b].equity)

\* positions open when day `day` starts: admitted earlier, not yet exited
OpenAtStart(day) ==
    Cardinality({i \in 1..Len(admitted) : admitted[i].day < day})
        - Cardinality({j \in 1..Len(trades) : trades[j].exit_date < day})

\* C17: the slots of a day are MAX_CONCURRENT minus the positions open when
\* the day starts, those that close on that day included; no more than that
\* many candidates are admitted on the day, and only candidates among the
\* first `slots` of the day's list are.
C17_SlotsBeforeExits ==
    \A day \in {admitted[i].day : i \in 1..Len(admitted)} :
        LET slots == MAX_CONCURRENT - OpenAtStart(day)
            first == SliceTo(Todays(day), slots)
            top   == {first[q] : q \in 1..Len(first)}
        IN  /\ slots >= 0
            /\ Len(first) <= slots
            /\ Cardinality({j \in 1..Len(admitted) : admitted[j].day = day}) <= slots
            /\ \A j \in 1..Len(admitted) :
                  admitted[j].day = day => admitted[j].row \in top

\* C17 witness: the admissions of a day are over, every slot is held by a
\* position that closes on this very day, and a candidate of the day was
\* left out.
C17_Witness ==
    /\ pc = "exit"
    /\ Len(open_positions) = MAX_CONCURRENT
    /\ \A i \in 1..Len(open_positions) :
          open_positions[i].bars_held = HARD_HOLD_DAYS - 1
    /\ \E r \in Rows : entries[r].date = d /\ r \notin AdmittedRows

\* C18: a candidate is admitted on its own entry date or never: every
\* admission happened on the date of its candidate, every open position and
\* every trade carries that date, no row was admitted twice, and a row whose
\* date has passed without admission is not admitted later.
C18_OwnDateOnly ==
    /\ \A i \in 1..Len(admitted) :
          /\ admitted[i].row \in Rows
          /\ entries[admitted[i].row].date = admitted[i].day
          /\ \A j \in 1..Len(admitted) : admitted[j].row = admitted[i].row => j = i
    /\ \A i \in 1..Len(trades) :
          trades[i].entry_date = entries[admitted[i].row].date
    /\ \A i \in 1..Len(open_positions) :
          open_positions[i].entry_date = entries[admitted[Len(trades) + i].row].date

\* C18 witness: a candidate was left out on its date, that date has passed,
\* and on the present day slots are free after the admissions.
C18_Witness ==
    /\ pc = "exit"
    /\ Len(open_positions) < MAX_CONCURRENT
    /\ \E r \in Rows : entries[r].date < d /\ r \notin AdmittedRows

\* C22: with valid candidates (0 < stop < entry_px) equity never decreases
\* and stays positive: every trade has pnl > 0, the equity-curve values are
\* non-decreasing in date and at least the initial 100, and every admitted
\* position has quantity > 0.
C22_EquityNeverFalls ==
    (\A r \in Rows : /\ RLt(R(0), entries[r].stop)
                     /\ RLt(entries[r].stop, entries[r].entry_px))
    => /\ \A i \in 1..Len(trades) : RGt(trades[i].pnl, R(0))
       /\ \A i \in 1..Len(curve) : RGe(curve[i].equity, R(100))
       /\ \A i \in 1..(Len(curve) - 1) :
             /\ curve[i].date < curve[i + 1].date
             /\ RLe(curve[i].equity, curve[i + 1].equity)
       /\ RGe(equity, R(100))
       /\ \A i \in 1..Len(admitted) : RGt(admitted[i].qty, R(0))
       /\ \A i \in 1..Len(open_positions) : RGt(open_positions[i].qty, R(0))

\* C22 witness: the run is over, a trade was closed at a profit, the last
\* equity point lies above the first, and a later position was sized from
\* the grown equity.
C22_Witness ==
    /\ pc = "done"
    /\ trades # <<>>
    /\ RLt(curve[1].equity, curve[Len(curve)].equity)
    /\ \E i \in 1..Len(admitted) :
          /\ RGt(EquityBefore(admitted[i].day), R(100))
          /\ RGt(admitted[i].qty, R(0))

\* C23: the simulator never holds two open positions in the same asset:
\* process_coin never returns two entries with the same entry date, the
\* collected entries hold no two rows with the same asset and date, and no
\* two open positions share an asset.
C23_OnePositionPerAsset ==
    /\ \A i, j \in 1..Len(coin_entries) :
          coin_entries[i].date = coin_entries[j].date => i = j
    /\ \A i, j \in Rows :
          (entries[i].coin = entries[j].coin /\ entries[i].date = entries[j].date)
             => i = j
    /\ \A i, j \in 1..Len(open_positions) :
          open_positions[i].coin = open_positions[j].coin => i = j

\* ====================================================== per-coin claims
\* the conditions of a confirmation at index j, as the claim states them
Continuation(frame, j) ==
    /\ RGt(Row(frame, j).close, Row(frame, j - 1).close)
    /\ ~IsNaN(Row(frame, j).vol_ma10)
    /\ Row(frame, j).vol_ma10 # R(0)
    /\ RGe(RDiv(Row(frame, j).vol, Row(frame, j).vol_ma10), VOL_MULT_MIN)

\* the indices j with s < j <= s + 5 and j < len(df)
ConfirmWindow(frame, s) == {j \in (s + 1)..(s + 5) : j < NRows(frame)}

\* c is None and no index of the window qualifies, or c is the smallest
\* index of the window that qualifies
ConfirmationOK(frame, s, c) ==
    IF c = None
    THEN \A j \in ConfirmWindow(frame, s) : ~Continuation(frame, j)
    ELSE /\ c \in ConfirmWindow(frame, s)
         /\ Continuation(frame, c)
         /\ \A j \in ConfirmWindow(frame, s) : j < c => ~Continuation(frame, j)

Doubled(frame, i) ==
    \/ RGe(Row(frame, i).close, RMul(R(2), Row(frame, i - 1).close))
    \/ RGe(Row(frame, i).close, RMul(R(2), Row(frame, i - 2).close))

\* seq lists exactly the members of set, in ascending order
ListsAscending(seq, set) ==
    /\ {seq[p] : p \in 1..Len(seq)} = set
    /\ \A p \in 1..(Len(seq) - 1) : seq[p] < seq[p + 1]

\* C8 as stated: find_signals(df) returns, in ascending order, exactly the
\* indices i with 2 <= i < len(df) for which close[i] >= 2 * close[i-1] or
\* close[i] >= 2 * close[i-2].
C8_SignalsAsStated ==
    cpc \in {"loop", "returned"} =>
        ListsAscending(sig_idxs, {i \in 2..(NRows(df) - 1) : Doubled(df, i)})

\* C8 amended: find_signals(df) returns, in ascending order, exactly the
\* indices i with 2 <= i < len(df) for which close[i] > 0 and
\* (close[i] >= 2 * close[i-1] or close[i] >= 2 * close[i-2]); never index 0
\* or 1; whether i is a signal is decided by the closes at i, i-1 and i-2,
\* so by rows at indices <= i alone.
C8_Signals ==
    cpc \in {"loop", "returned"} =>
        /\ ListsAscending(sig_idxs,
              {i \in 2..(NRows(df) - 1) :
                  RGt(Row(df, i).close, R(0)) /\ Doubled(df, i)})
        /\ \A p \in 1..Len(sig_idxs) : sig_idxs[p] >= 2

\* C8 witness: the scan has run on a frame that holds a signal found only by
\* the 2-day test, a rise from a zero close, and two zero closes in a row.
C8_Witness ==
    /\ cpc = "loop"
    /\ \E p \in 1..Len(sig_idxs) :
          ~RGe(Row(df, sig_idxs[p]).close, RMul(R(2), Row(df, sig_idxs[p] - 1).close))
    /\ \E i \in 2..(NRows(df) - 1) :
          Row(df, i).close = R(0) /\ Row(df, i - 1).close = R(0)

\* C9: every entry process_coin returns has
\* stop = entry_px - max(ATR_MULT_STOP * atr, 0.25 * entry_px), 0 < stop <
\* entry_px, and atr defined and non-zero; a confirmation whose stop is <= 0
\* or >= entry_px, or whose ATR is undefined or zero, yields no entry.
C9_StopBand ==
    cpc # "idle" =>
        /\ Len(origin) = Len(coin_entries)
        /\ \A i \in 1..Len(coin_entries) :
              LET e   == coin_entries[i]
                  row == Row(df, origin[i][2])
              IN  /\ e.entry_px = RMul(row.close, <<201, 200>>)
                  /\ e.atr = row.atr
                  /\ ~IsNaN(e.atr)
                  /\ e.atr # R(0)
                  /\ RAdd(e.stop, RMax(RMul(ATR_MULT_STOP, e.atr),
                                       RMul(<<1, 4>>, e.entry_px))) = e.entry_px
                  /\ RGt(e.stop, R(0))
                  /\ RLt(e.stop, e.entry_px)
        /\ \A i \in 1..Len(calls) :
              LET c   == calls[i][2]
                  row == Row(df, c)
                  px  == RMul(row.close, <<201, 200>>)
                  st  == RSub(px, RMax(RMul(ATR_MULT_STOP, row.atr), RMul(<<1, 4>>, px)))
              IN  (/\ c # None
                   /\ \/ IsNaN(row.atr)
                      \/ row.atr = R(0)
                      \/ RLe(st, R(0))
                      \/ RGe(st, px))
                  => \A q \in 1..Len(origin) : origin[q] # calls[i]

\* C9 witness: process_coin returned an entry whose stop is set by the ATR
\* term, which exceeds the floor term.
C9_Witness ==
    /\ cpc = "returned"
    /\ \E i \in 1..Len(coin_entries) :
          RGt(RMul(ATR_MULT_STOP, coin_entries[i].atr),
              RMul(<<1, 4>>, coin_entries[i].entry_px))

\* C10: every entry process_coin returns comes from a signal whose market
\* cap on the signal day is defined and within [MCAP_MIN, MCAP_MAX], bounds
\* included, and is dated inside the window; a signal failing the test
\* contributes no entry.
C10_SignalDayBand ==
    cpc # "idle" =>
        /\ \A i \in 1..Len(origin) :
              LET m == Row(df, origin[i][1]).mcap
              IN  /\ ~IsNaN(m)
                  /\ RLe(R(MCAP_MIN), m)
                  /\ RLe(m, R(MCAP_MAX))
                  /\ coin_entries[i].date = Row(df, origin[i][2]).date
                  /\ 1 <= coin_entries[i].date
                  /\ coin_entries[i].date <= NumDays
        /\ \A p \in 1..Len(sig_idxs) :
              LET m == Row(df, sig_idxs[p]).mcap
              IN  (p < k /\ (IsNaN(m) \/ RLt(m, R(MCAP_MIN)) \/ RGt(m, R(MCAP_MAX))))
                  => \A q \in 1..Len(calls) : calls[q][1] # sig_idxs[p]

\* C10 witness: an entry was returned whose signal-day market cap lies on a
\* bound of the band while the market cap of its confirmation day is outside.
C10_Witness ==
    /\ cpc = "returned"
    /\ \E i \in 1..Len(origin) :
          /\ Row(df, origin[i][1]).mcap \in {R(MCAP_MIN), R(MCAP_MAX)}
          /\ McapRejected(Row(df, origin[i][2]).mcap)

\* C21: rolling indicators are undefined until their window is full, and no
\* entry is built on an undefined one: in the frame to_daily_df returns, atr
\* is undefined at every index below ATR_LEN = 14 and vol_ma10 at every
\* index below 9, and every entry process_coin returns has a confirmation
\* index >= ATR_LEN.
C21_FullWindowOnly ==
    cpc # "idle" =>
        /\ ATR_LEN = 14
        /\ \A i \in 0..(NRows(df) - 1) :
              /\ i < ATR_LEN => IsNaN(Row(df, i).atr)
              /\ i < 9 => IsNaN(Row(df, i).vol_ma10)
        /\ \A q \in 1..Len(origin) : origin[q][2] >= ATR_LEN
        /\ Len(origin) = Len(coin_entries)

\* C21 witness: process_coin returned; a signal inside the band was
\* confirmed at an index below ATR_LEN, where vol_ma10 is defined and atr is
\* not, and gave no entry.
C21_Witness ==
    /\ cpc = "returned"
    /\ \E i \in 1..Len(calls) :
          /\ calls[i][2] # None
          /\ calls[i][2] < ATR_LEN
          /\ ~IsNaN(Row(df, calls[i][2]).vol_ma10)
          /\ \A q \in 1..Len(origin) : origin[q] # calls[i]

\* ================================================== to_daily_df claims
\* the calendar days of the window for which the raw series has a sample
WindowDays ==
    {DateOf(mc.samples[i].ts) : i \in 1..Len(mc.samples)} \cap (1..NumDays)

C19_FetchCapped ==
    /\ requests <= Attempts(script)
    /\ requests = Len(replies)
    /\ Attempts("v3") = 6 /\ Attempts("data_sources") = 5
    /\ fpc # "raised"
    /\ fpc = "returned" =>
          /\ replies[Len(replies)] = "ok"
          /\ \A i \in 1..(Len(replies) - 1) : replies[i] # "ok"
    /\ fpc = "none" =>
          /\ requests = Attempts(script)
          /\ \A i \in 1..Len(replies) : replies[i] # "ok"
    /\ fpc = "loop" => ENABLED NextFetch

\* ================================== get_combined_market_data claims
\* CoinGecko's assets followed by CoinMarketCap's
Provided == cg \o cmc

\* where a symbol first occurs in Provided
FirstAt(sym) ==
    CHOOSE i \in 1..Len(Provided) :
        /\ Provided[i].symbol = sym
        /\ \A j \in 1..(i - 1) : Provided[j].symbol # sym

\* C20: get_combined_market_data returns no two assets with the same
\* upper-cased symbol and exactly one for every symbol any provider
\* returned: the first occurrence in the order CoinGecko then CoinMarketCap,
\* in that relative order; if one provider returns nothing, the other's
\* assets are still returned.
C20_FirstWriterWins ==
    mpc = "returned" =>
        /\ \A i, j \in 1..Len(unique_data) :
              unique_data[i].symbol = unique_data[j].symbol => i = j
        /\ {unique_data[i].symbol : i \in 1..Len(unique_data)}
              = {Provided[i].symbol : i \in 1..Len(Provided)}
        /\ \A i \in 1..Len(unique_data) :
              unique_data[i] = Provided[FirstAt(unique_data[i].symbol)]
        /\ \A i \in 1..(Len(unique_data) - 1) :
              FirstAt(unique_data[i].symbol) < FirstAt(unique_data[i + 1].symbol)
        /\ \A i \in 1..Len(unique_data) : unique_data[i].symbol = Upper(unique_data[i].symbol)

\* C20 witness: both providers listed assets, CoinMarketCap repeated a symbol
\* of CoinGecko and added a new one; the repeat was dropped, the new one kept.
C20_Witness ==
    /\ mpc = "returned"
    /\ \E i \in 1..Len(cg), j \in 1..Len(cmc) : cg[i].symbol = cmc[j].symbol
    /\ \E i \in 1..Len(unique_data) : unique_data[i].source = "coinmarketcap"
    /\ Len(unique_data) < Len(Provided)

\* ======================================================== service claims

\* C24: runs of the backtest script do not overlap, and once every run that
\* has read the clock has stored its reading, last_run_time is the reading of
\* the run that began last.
C24_SingleRun ==
    tpos # <<>> =>
        /\ Cardinality(active) <= 1
        /\ (clock > 0 /\ \A t \in Threads : tpos[t] # "set")
              => last_run_time = clock

====
